---------------------------- MODULE Spec2Model ----------------------------
(***************************************************************************)
(* A model of the scryfall types crate: the serde deserializers of         *)
(* src/types/{price,uri,card,list}.rs.  A wire object is a JSON value; a   *)
(* text string is a sequence of one-character strings, so that tags can be *)
(* compared and converted character by character.                          *)
(***************************************************************************)
EXTENDS Integers, Sequences, FiniteSets, TLC

VARIABLES input, results

vars == <<input, results>>

(***************************************************************************)
(* Bounds of the model.                                                    *)
(***************************************************************************)
MaxPriceLen == 3

(***************************************************************************)
(* Characters and strings.                                                 *)
(***************************************************************************)
Upper == <<"A","B","C","D","E","F","G","H","I","J","K","L","M",
           "N","O","P","Q","R","S","T","U","V","W","X","Y","Z">>

Lower == <<"a","b","c","d","e","f","g","h","i","j","k","l","m",
           "n","o","p","q","r","s","t","u","v","w","x","y","z">>

Digits == <<"0","1","2","3","4","5","6","7","8","9">>

Range(seq) == {seq[i] : i \in DOMAIN seq}

IsUppercase(c) == c \in Range(Upper)

IsDigit(c) == c \in Range(Digits)

IsAlpha(c) == c \in Range(Upper) \cup Range(Lower)

ToAsciiLowercase(c) ==
    IF IsUppercase(c) THEN Lower[CHOOSE i \in DOMAIN Upper : Upper[i] = c] ELSE c

StrToAsciiLowercase(s) == [i \in DOMAIN s |-> ToAsciiLowercase(s[i])]

EqIgnoreAsciiCase(s, t) == StrToAsciiLowercase(s) = StrToAsciiLowercase(t)

DigitValue(c) == (CHOOSE i \in DOMAIN Digits : Digits[i] = c) - 1

\* all strings over an alphabet, up to a length
StringsUpTo(alphabet, n) == UNION {[1..k -> alphabet] : k \in 0..n}

Drop(s, n) == SubSeq(s, n + 1, Len(s))

Take(s, n) == SubSeq(s, 1, n)

(***************************************************************************)
(* Results of a deserialization: Ok(value) or Err(error).                  *)
(***************************************************************************)
Ok(v) == [ok |-> TRUE, v |-> v]

Err(e) == [ok |-> FALSE, err |-> e]

Custom(msg) == [kind |-> "custom", msg |-> msg]

InvalidType(expected) == [kind |-> "invalid_type", expected |-> expected]

(***************************************************************************)
(* JSON values (the wire objects).  An object keeps its members in wire    *)
(* order, as pairs <<key, value>>.                                         *)
(***************************************************************************)
JNull == [t |-> "null"]

JStr(s) == [t |-> "str", s |-> s]

JNum(n) == [t |-> "num", n |-> n]

JBool(b) == [t |-> "bool", b |-> b]

JArr(elems) == [t |-> "arr", a |-> elems]

JObj(members) == [t |-> "obj", o |-> members]

(***************************************************************************)
(* f64 (IEEE 754 binary64) and str::parse::<f64>, which price.rs calls.    *)
(* A finite nonzero value is (-1)^neg * 1.f * 2^exp, with mant the         *)
(* MANTISSA_BITS bits of 1.f, most significant first.                      *)
(***************************************************************************)
MANTISSA_BITS == 53

LARGEST_POWER_OF_TEN == 308

SMALLEST_POWER_OF_TEN == -342

F64Nan == [cls |-> "nan", neg |-> FALSE, exp |-> 0, mant |-> <<>>]

F64Inf(neg) == [cls |-> "inf", neg |-> neg, exp |-> 0, mant |-> <<>>]

F64Zero(neg) == [cls |-> "zero", neg |-> neg, exp |-> 0, mant |-> <<>>]

F64Finite(neg, exp, mant) == [cls |-> "fin", neg |-> neg, exp |-> exp, mant |-> mant]

\* f64's == (PartialEq): NaN equals nothing, -0.0 equals 0.0
F64Eq(a, b) ==
    /\ a.cls # "nan"
    /\ b.cls # "nan"
    /\ \/ a.cls = "zero" /\ b.cls = "zero"
       \/ a = b

F64IsFinite(a) == a.cls \in {"zero", "fin"}

\* b^k by repeated squaring
RECURSIVE Pow(_, _)
Pow(b, k) ==
    IF k = 0 THEN 1
    ELSE LET h == Pow(b, k \div 2)
         IN IF k % 2 = 0 THEN h * h ELSE b * h * h

Pow2(k) == Pow(2, k)

Pow10(k) == Pow(10, k)

\* the largest e with d * 2^e <= n, for n >= d
ExpUp(n, d) == CHOOSE e \in 0..n : d * Pow2(e) <= n /\ n < 2 * d * Pow2(e)

\* the smallest j with n * 2^j >= d, for 0 < n <= d
ExpDown(n, d) ==
    CHOOSE j \in 0..d : n * Pow2(j) >= d /\ (j = 0 \/ n * Pow2(j - 1) < d)

\* the k low binary digits of n, most significant first
BitsOf(n, k) == [i \in 1..k |-> (n \div Pow2(k - i)) % 2]

\* the first 8 * k binary digits of r / b after the point (0 <= r < b), eight at a
\* time, and what is left
RECURSIVE QuotientBits(_, _, _)
QuotientBits(r, b, k) ==
    IF k = 0 THEN [bits |-> <<>>, rem |-> r]
    ELSE LET scaled == r * 256
             rest == QuotientBits(scaled % b, b, k - 1)
         IN [bits |-> BitsOf(scaled \div b, 8) \o rest.bits, rem |-> rest.rem]

\* bits + 1, most significant bit first: the last 0 becomes 1, the 1s after it 0
BitsInc(bits) ==
    LET zeros == {i \in DOMAIN bits : bits[i] = 0}
        last == CHOOSE i \in zeros : \A h \in zeros : h <= i
    IN IF zeros = {} THEN [bits |-> [i \in DOMAIN bits |-> 0], carry |-> 1]
       ELSE [bits |-> [i \in DOMAIN bits |->
                          IF i < last THEN bits[i] ELSE IF i = last THEN 1 ELSE 0],
             carry |-> 0]

RoundTowardZero(mant, guard, sticky) == FALSE

\* round to nearest, ties to even: whether the mantissa is rounded up
RoundNearestEven(mant, guard, sticky) ==
    guard = 1 /\ (sticky \/ mant[Len(mant)] = 1)

\* the quotient rounded to MANTISSA_BITS bits; a carry out of them is the next
\* power of two
F64Rounded(neg, e, mant, up, inc) ==
    IF ~up THEN F64Finite(neg, e, mant)
    ELSE IF inc.carry = 1
         THEN F64Finite(neg, e + 1, <<1>> \o [i \in 1..(MANTISSA_BITS - 1) |-> 0])
         ELSE F64Finite(neg, e, inc.bits)

\* q holds the binary digits of a / b after its leading 1: the mantissa, the
\* guard bit after it, and the sticky rest
F64FromQuotient(neg, e, q, mant) ==
    F64Rounded(neg, e, mant,
               RoundNearestEven(mant, q.bits[MANTISSA_BITS],
                                q.rem # 0 \/ \E i \in (MANTISSA_BITS + 1)..Len(q.bits) :
                                                 q.bits[i] = 1),
               BitsInc(mant))

\* a / b with 1 <= a / b < 2
F64FromNormalized(neg, e, a, b, q) ==
    F64FromQuotient(neg, e, q, <<1>> \o Take(q.bits, MANTISSA_BITS - 1))

\* n / d = (a / b) * 2^e with 1 <= a / b < 2
F64FromScaled(neg, n, d, e) ==
    F64FromNormalized(neg, e, IF e >= 0 THEN n ELSE n * Pow2(0 - e),
                      IF e >= 0 THEN d * Pow2(e) ELSE d,
                      QuotientBits((IF e >= 0 THEN n ELSE n * Pow2(0 - e))
                                   - (IF e >= 0 THEN d * Pow2(e) ELSE d),
                                   IF e >= 0 THEN d * Pow2(e) ELSE d,
                                   1 + MANTISSA_BITS \div 8))

\* the f64 nearest to n / d, for integers n > 0 and d > 0
F64FromRational(neg, n, d) ==
    F64FromScaled(neg, n, d, IF n >= d THEN ExpUp(n, d) ELSE 0 - ExpDown(n, d))

\* compute_float: the decimal w * 10^q as an f64
ComputeFloat(neg, w, q) ==
    IF w = 0 \/ q < SMALLEST_POWER_OF_TEN THEN F64Zero(neg)
    ELSE IF q > LARGEST_POWER_OF_TEN THEN F64Inf(neg)
    ELSE F64FromRational(neg, IF q >= 0 THEN w * Pow10(q) ELSE w,
                         IF q >= 0 THEN 1 ELSE Pow10(0 - q))

\* the number of leading digits of s
DigitPrefixLen(s) ==
    IF \A i \in DOMAIN s : IsDigit(s[i]) THEN Len(s)
    ELSE (CHOOSE i \in DOMAIN s : ~IsDigit(s[i]) /\ \A h \in 1..(i - 1) : IsDigit(s[h])) - 1

RECURSIVE DigitsValue(_)
DigitsValue(ds) ==
    IF ds = <<>> THEN 0
    ELSE 10 * DigitsValue(Take(ds, Len(ds) - 1)) + DigitValue(ds[Len(ds)])

Str_nan == <<"n","a","n">>

Str_inf == <<"i","n","f">>

Str_infinity == <<"i","n","f","i","n","i","t","y">>

\* parse_inf_nan: the whole of s, in any letter case
ParseInfNan(s, neg) ==
    IF EqIgnoreAsciiCase(s, Str_nan) THEN Ok(F64Nan)
    ELSE IF EqIgnoreAsciiCase(s, Str_inf) \/ EqIgnoreAsciiCase(s, Str_infinity)
         THEN Ok(F64Inf(neg))
    ELSE Err("invalid float literal")

\* s is ni digits, fw characters of "." and digits, ew of "e" and a sign, and ne
\* digits; anything else, no digit before the exponent or none in it is no number
ParseNumberEnd(s, neg, ni, fw, ew, ne) ==
    IF \/ ni + fw = 0
       \/ fw = 1 /\ ni = 0
       \/ ew > 0 /\ ne = 0
       \/ ni + fw + ew + ne # Len(s)
    THEN ParseInfNan(s, neg)
    ELSE Ok(ComputeFloat(neg,
                         DigitsValue(Take(s, ni) \o SubSeq(s, ni + 2, ni + fw)),
                         (IF ew = 0 THEN 0
                          ELSE IF s[ni + fw + ew] = "-"
                               THEN 0 - DigitsValue(SubSeq(s, ni + fw + ew + 1, Len(s)))
                               ELSE DigitsValue(SubSeq(s, ni + fw + ew + 1, Len(s))))
                         - (IF fw > 0 THEN fw - 1 ELSE 0)))

\* the digits of the exponent
ParseExponentDigits(s, neg, ni, fw, ew) ==
    ParseNumberEnd(s, neg, ni, fw, ew,
                   IF ew > 0 THEN DigitPrefixLen(Drop(s, ni + fw + ew)) ELSE 0)

\* [eE] [+-]
ParseExponent(s, neg, ni, fw) ==
    ParseExponentDigits(s, neg, ni, fw,
                        IF ni + fw < Len(s) /\ s[ni + fw + 1] \in {"e", "E"}
                        THEN (IF ni + fw + 1 < Len(s) /\ s[ni + fw + 2] \in {"-", "+"}
                              THEN 2 ELSE 1)
                        ELSE 0)

\* "." Digit*
ParseFraction(s, neg, ni) ==
    ParseExponent(s, neg, ni,
                  IF ni < Len(s) /\ s[ni + 1] = "."
                  THEN 1 + DigitPrefixLen(Drop(s, ni + 1)) ELSE 0)

\* parse_number: Digit* [. Digit*] with a digit somewhere, then [eE] [+-] Digit+,
\* and nothing after it
ParseNumber(s, neg) == ParseFraction(s, neg, DigitPrefixLen(s))

\* dec2flt: <f64 as FromStr>::from_str
ParseF64(s) ==
    IF s = <<>> THEN Err("cannot parse float from empty string")
    ELSE LET neg == Head(s) = "-"
             body == IF Head(s) \in {"-", "+"} THEN Tail(s) ELSE s
         IN IF body = <<>> THEN Err("invalid float literal")
            ELSE ParseNumber(body, neg)

(***************************************************************************)
(* price.rs: Price, PriceVisitor::visit_str, Price::deserialize.           *)
(***************************************************************************)
\* the match on what value.parse::<f64>() returns
PriceVisitor_match(parsed) ==
    IF ~parsed.ok THEN Err(Custom("failed to parse price"))
    ELSE Ok(parsed.v)

PriceVisitor_visit_str(value) == PriceVisitor_match(ParseF64(value))

\* deserialize_str: serde_json hands a JSON string to the visitor and refuses
\* every other JSON value
Price_deserialize(j) ==
    IF j.t = "str" THEN PriceVisitor_visit_str(j.s)
    ELSE Err(InvalidType("a valid price"))

\* Price's derived PartialEq
Price_eq(a, b) == F64Eq(a, b)

(***************************************************************************)
(* http::Uri and str::parse::<http::Uri>, which uri.rs calls.  A parsed    *)
(* Uri holds a scheme, an authority and a path with its query; each may be *)
(* empty.                                                                  *)
(***************************************************************************)
MAX_SCHEME_LEN == 64

Alnum == Range(Upper) \cup Range(Lower) \cup Range(Digits)

\* URI_CHARS: what may stand in an authority
UriChars ==
    Alnum \cup {"!", "#", "$", "&", "'", "(", ")", "*", "+", ",", "-", ".", "/",
                ":", ";", "=", "?", "@", "[", "]", "_", "~"}

\* SCHEME_CHARS
SchemeChars == Alnum \cup {"+", "-", ".", ":"}

\* the characters http admits in a path and in a query; the backslash (both) and
\* the backtick (query) are left out, and no input here holds them
PathChars ==
    Alnum \cup {"!", "$", "%", "&", "'", "(", ")", "*", "+", ",", "-", ".", "/",
                ":", ";", "=", "@", "[", "]", "^", "_", "|", "~"}

QueryChars == PathChars \cup {"?", "{", "}"}

Str_http == <<"h","t","t","p">>

Str_https == <<"h","t","t","p","s">>

Str_sep == <<":","/","/">>

\* the position of the first character of s that is in set, or Len(s) + 1
FirstIn(s, set) ==
    IF \E i \in DOMAIN s : s[i] \in set
    THEN CHOOSE i \in DOMAIN s : s[i] \in set /\ \A j \in 1..(i - 1) : s[j] \notin set
    ELSE Len(s) + 1

\* the position of the last character of s that is in set, or 0
LastIn(s, set) ==
    IF \E i \in DOMAIN s : s[i] \in set
    THEN CHOOSE i \in DOMAIN s : s[i] \in set /\ \A j \in (i + 1)..Len(s) : s[j] \notin set
    ELSE 0

HttpUri(scheme, authority, path, query) ==
    [scheme |-> scheme, authority |-> authority, path |-> path, query |-> query]

NoQuery == [some |-> FALSE, v |-> <<>>]

SomeQuery(q) == [some |-> TRUE, v |-> q]

\* a scheme ends at stop if "://" stands there
Scheme2_at(s, stop) ==
    IF stop <= Len(s) /\ s[stop] = ":" /\ Len(s) >= stop + 2
       /\ SubSeq(s, stop + 1, stop + 2) = <<"/","/">>
    THEN IF stop - 1 > MAX_SCHEME_LEN THEN Err("SchemeTooLong")
         ELSE Ok(stop - 1)
    ELSE Ok(-1)

\* Scheme2::parse: the length of the scheme standing before "://", or -1 for none
Scheme2_parse(s) ==
    IF Len(s) >= 7 /\ EqIgnoreAsciiCase(Take(s, 7), Str_http \o Str_sep) THEN Ok(4)
    ELSE IF Len(s) >= 8 /\ EqIgnoreAsciiCase(Take(s, 8), Str_https \o Str_sep) THEN Ok(5)
    ELSE IF Len(s) > 3
    THEN Scheme2_at(s, FirstIn(s, {c \in Range(s) : c \notin SchemeChars \/ c = ":"}))
    ELSE Ok(-1)

\* the checks Authority::parse makes on the characters a before the first of
\* "/", "?" and "#"
Authority_check(a, lastAt, lastBracket) ==
    IF \E i \in DOMAIN a : a[i] \notin UriChars \cup {"%"} THEN Err("InvalidUriChar")
    ELSE IF ("[" \in Range(a)) # ("]" \in Range(a)) THEN Err("InvalidAuthority")
    ELSE IF Cardinality({i \in DOMAIN a : a[i] = ":" /\ i > lastBracket}) > 1
         THEN Err("InvalidAuthority")
    ELSE IF a # <<>> /\ lastAt = Len(a) THEN Err("InvalidAuthority")
    ELSE IF \E i \in DOMAIN a : a[i] = "%" /\ i > lastAt THEN Err("InvalidAuthority")
    ELSE Ok(Len(a))

Authority_upto(a) == Authority_check(a, LastIn(a, {"@"}), LastIn(a, {"]", "@"}))

\* Authority::parse: how many leading characters of s make up the authority
Authority_parse(s) == Authority_upto(Take(s, FirstIn(s, {"/", "?", "#"}) - 1))

PathAndQuery_check(path, hasQuery, query) ==
    IF \E i \in DOMAIN path : path[i] \notin PathChars THEN Err("InvalidUriChar")
    ELSE IF \E i \in DOMAIN query : query[i] \notin QueryChars THEN Err("InvalidUriChar")
    ELSE Ok([path |-> path, query |-> IF hasQuery THEN SomeQuery(query) ELSE NoQuery])

PathAndQuery_split(s, pathEnd, queryEnd) ==
    PathAndQuery_check(Take(s, pathEnd),
                       pathEnd < Len(s) /\ s[pathEnd + 1] = "?",
                       SubSeq(s, pathEnd + 2, queryEnd))

\* PathAndQuery::from_shared: the path up to "?", the query up to "#"; a fragment
\* is cut off
PathAndQuery_from_shared(s) ==
    PathAndQuery_split(s, FirstIn(s, {"?", "#"}) - 1, FirstIn(s, {"#"}) - 1)

\* the scheme as Scheme2 keeps it: http and https as the protocol, others as
\* they are written
Scheme_of(s, n) ==
    IF n = 4 /\ EqIgnoreAsciiCase(Take(s, 4), Str_http) THEN Str_http
    ELSE IF n = 5 /\ EqIgnoreAsciiCase(Take(s, 5), Str_https) THEN Str_https
    ELSE Take(s, n)

Uri_with_path(scheme, authority, pq) ==
    IF ~pq.ok THEN pq
    ELSE Ok(HttpUri(scheme, authority, pq.v.path, pq.v.query))

Uri_after_authority(s, n, rest, auth) ==
    IF ~auth.ok THEN auth
    ELSE IF n < 0
         THEN IF auth.v # Len(rest) THEN Err("InvalidFormat")
              ELSE Ok(HttpUri(<<>>, rest, <<>>, NoQuery))
    ELSE IF auth.v = 0 THEN Err("InvalidFormat")
    ELSE Uri_with_path(Scheme_of(s, n), Take(rest, auth.v),
                       PathAndQuery_from_shared(Drop(rest, auth.v)))

Uri_after_scheme(s, n, rest) == Uri_after_authority(s, n, rest, Authority_parse(rest))

Uri_with_scheme(s, sch) ==
    IF ~sch.ok THEN sch
    ELSE Uri_after_scheme(s, sch.v, IF sch.v >= 0 THEN Drop(s, sch.v + 3) ELSE s)

\* parse_full: [scheme "://"] authority [path]
Uri_parse_full(s) == Uri_with_scheme(s, Scheme2_parse(s))

Uri_authority_form(s, auth) ==
    IF ~auth.ok THEN auth
    ELSE IF auth.v # Len(s) THEN Err("InvalidUriChar")
    ELSE Ok(HttpUri(<<>>, s, <<>>, NoQuery))

\* Uri::from_shared, behind <http::Uri as FromStr>::from_str
HttpUri_from_str(s) ==
    IF Len(s) = 0 THEN Err("Empty")
    ELSE IF s = <<"/">> THEN Ok(HttpUri(<<>>, <<>>, s, NoQuery))
    ELSE IF s = <<"*">> THEN Ok(HttpUri(<<>>, <<>>, s, NoQuery))
    ELSE IF Len(s) = 1 THEN Uri_authority_form(s, Authority_parse(s))
    ELSE IF Head(s) = "/" THEN Uri_with_path(<<>>, <<>>, PathAndQuery_from_shared(s))
    ELSE Uri_parse_full(s)

\* Uri::path: an absolute Uri with no path has the path "/"
HttpUri_path(u) == IF u.path = <<>> /\ u.scheme # <<>> THEN <<"/">> ELSE u.path

\* http::Uri's PartialEq: scheme and authority without regard to letter case
HttpUri_eq(a, b) ==
    /\ EqIgnoreAsciiCase(a.scheme, b.scheme)
    /\ EqIgnoreAsciiCase(a.authority, b.authority)
    /\ HttpUri_path(a) = HttpUri_path(b)
    /\ a.query = b.query

\* http::Uri's Display
HttpUri_to_string(u) ==
    (IF u.scheme # <<>> THEN u.scheme \o Str_sep ELSE <<>>)
    \o u.authority \o HttpUri_path(u)
    \o (IF u.query.some THEN <<"?">> \o u.query.v ELSE <<>>)

(***************************************************************************)
(* uri.rs: Uri, UriVisitor::visit_str, Uri::deserialize.                   *)
(***************************************************************************)
\* the match on what value.parse::<http::Uri>() returns
UriVisitor_match(parsed) ==
    IF ~parsed.ok THEN Err(Custom("failed to parse URI"))
    ELSE Ok(parsed.v)

UriVisitor_visit_str(value) == UriVisitor_match(HttpUri_from_str(value))

Uri_deserialize(j) ==
    IF j.t = "str" THEN UriVisitor_visit_str(j.s)
    ELSE Err(InvalidType("a valid URI"))

\* Uri's derived PartialEq
Uri_eq(a, b) == HttpUri_eq(a, b)

(***************************************************************************)
(* serde's derived Deserialize.  A type is described by a record: its kind *)
(* k, and what the kind needs (an enum's variants, a struct's fields, the  *)
(* element type of an Option, a Vec or a HashSet).                         *)
(***************************************************************************)
Variant(ident, rename) == [ident |-> ident, rename |-> rename]

Field(name, ty) == [name |-> name, ty |-> ty]

T_String == [k |-> "String"]

T_u32 == [k |-> "u32"]

T_u64 == [k |-> "u64"]

T_bool == [k |-> "bool"]

T_Price == [k |-> "Price"]

T_Uri == [k |-> "Uri"]

T_Uuid == [k |-> "Uuid"]

EnumOf(enum) == [k |-> "enum", enum |-> enum]

OptionOf(ty) == [k |-> "Option", of |-> ty]

VecOf(ty) == [k |-> "Vec", of |-> ty]

HashSetOf(ty) == [k |-> "HashSet", of |-> ty]

StructOf(name, fields) == [k |-> "struct", name |-> name, fields |-> fields]

\* serde's Deserialize for std::time::SystemTime reads a struct of two numbers
T_SystemTime ==
    StructOf("SystemTime", <<Field("secs_since_epoch", T_u64),
                             Field("nanos_since_epoch", T_u32)>>)

None == [some |-> FALSE]

Some(v) == [some |-> TRUE, v |-> v]

UnknownVariant(enum, tag) == [kind |-> "unknown_variant", enum |-> enum, tag |-> tag]

MissingField(name) == [kind |-> "missing_field", field |-> name]

DuplicateField(name) == [kind |-> "duplicate_field", field |-> name]

InvalidLength(n) == [kind |-> "invalid_length", len |-> n]

\* RenameRule::apply_to_variant with every word break dropped
SnakeCaseNoBreak(ident) == StrToAsciiLowercase(ident)

\* rename_all = "snake_case": an underscore before every capital but the first
RECURSIVE SnakeCaseBetween(_, _, _)
SnakeCaseBetween(ident, lo, hi) ==
    IF lo > hi THEN <<>>
    ELSE IF lo = hi
         THEN (IF lo > 1 /\ IsUppercase(ident[lo]) THEN <<"_">> ELSE <<>>)
              \o <<ToAsciiLowercase(ident[lo])>>
    ELSE SnakeCaseBetween(ident, lo, (lo + hi) \div 2)
         \o SnakeCaseBetween(ident, (lo + hi) \div 2 + 1, hi)

SnakeCase(ident) == SnakeCaseBetween(ident, 1, Len(ident))

\* RenameRule::apply_to_variant
RenameRule_apply_to_variant(rule, ident) ==
    CASE rule = "lowercase" -> StrToAsciiLowercase(ident)
      [] rule = "snake_case" -> SnakeCase(ident)
      [] OTHER -> ident

\* a variant's name on the wire: its own rename, or else the enum's rename_all
WireName(enum, i) ==
    IF enum.variants[i].rename # <<>> THEN enum.variants[i].rename
    ELSE RenameRule_apply_to_variant(enum.rename_all, enum.variants[i].ident)

\* a derived enum takes any variant whose name begins the tag
Enum_deserialize_prefix(enum, j) ==
    IF j.t # "str" THEN Err(InvalidType("enum"))
    ELSE LET hits == {i \in DOMAIN enum.variants :
                         /\ Len(WireName(enum, i)) <= Len(j.s)
                         /\ WireName(enum, i) = Take(j.s, Len(WireName(enum, i)))}
         IN IF hits = {} THEN Err(UnknownVariant(enum.name, j.s))
            ELSE Ok(enum.variants[CHOOSE i \in hits : \A h \in hits : i <= h].ident)

\* the derived Deserialize of a unit-variant enum: the variant whose wire name is
\* the JSON string, the first of them in declaration order
Enum_deserialize(enum, j) ==
    IF j.t # "str" THEN Err(InvalidType("enum"))
    ELSE LET hits == {i \in DOMAIN enum.variants : WireName(enum, i) = j.s}
         IN IF hits = {} THEN Err(UnknownVariant(enum.name, j.s))
            ELSE Ok(enum.variants[CHOOSE i \in hits : \A h \in hits : i <= h].ident)

HexDigits == Range(Digits) \cup {"a","b","c","d","e","f","A","B","C","D","E","F"}

\* uuid.rs is not among the sources: the canonical 8-4-4-4-12 text form
Uuid_deserialize(j) ==
    IF j.t # "str" THEN Err(InvalidType("a UUID"))
    ELSE IF /\ Len(j.s) = 36
            /\ \A i \in 1..36 : IF i \in {9, 14, 19, 24} THEN j.s[i] = "-"
                                ELSE j.s[i] \in HexDigits
         THEN Ok(StrToAsciiLowercase(j.s))
         ELSE Err(Custom("failed to parse UUID"))

FieldNames(ty) == {ty.fields[i].name : i \in DOMAIN ty.fields}

FieldIndex(ty, name) == CHOOSE i \in DOMAIN ty.fields : ty.fields[i].name = name

\* the first of a sequence of results that is an error, or 0
FirstErr(rs) ==
    IF \E i \in DOMAIN rs : ~rs[i].ok
    THEN CHOOSE i \in DOMAIN rs : ~rs[i].ok /\ \A h \in 1..(i - 1) : rs[h].ok
    ELSE 0

\* an Option field is read as None whatever value it carries
Option_deserialize_none(r) == IF r.ok THEN Ok(None) ELSE r

\* an Option field whose value fails to deserialize is read as None
Option_deserialize_lenient(r) == IF r.ok THEN Ok(Some(r.v)) ELSE Ok(None)

\* Option<T>: null is None, anything else must be a T
Option_deserialize(r) == IF r.ok THEN Ok(Some(r.v)) ELSE r

\* every field that has no member on the wire becomes None
Missing_field_lenient(field) == Ok(None)

\* every field that has no member on the wire is an error
Missing_field_strict(field) == Err(MissingField(field.name))

\* a field with no member on the wire: None for an Option, an error otherwise
Missing_field(field) ==
    IF field.ty.k = "Option" THEN Ok(None) ELSE Err(MissingField(field.name))

RECURSIVE Deserialize(_, _)
\* visit_map of a derived struct: the members in wire order, each known key once,
\* unknown keys skipped; then the fields that had no member
Struct_visit_map(ty, members) ==
    LET known == [i \in DOMAIN members |-> members[i][1] \in FieldNames(ty)]
        dup == [i \in DOMAIN members |->
                   known[i] /\ \E h \in 1..(i - 1) : members[h][1] = members[i][1]]
        rs == [i \in DOMAIN members |->
                  IF ~known[i] THEN Ok(None)
                  ELSE IF dup[i] THEN Err(DuplicateField(members[i][1]))
                  ELSE Deserialize(ty.fields[FieldIndex(ty, members[i][1])].ty,
                                   members[i][2])]
        present == {members[i][1] : i \in DOMAIN members}
        absent == [i \in DOMAIN ty.fields |->
                      IF ty.fields[i].name \in present THEN Ok(None)
                      ELSE Missing_field(ty.fields[i])]
        valueOf(name) ==
            IF name \in present
            THEN rs[CHOOSE i \in DOMAIN members : members[i][1] = name].v
            ELSE absent[FieldIndex(ty, name)].v
    IN IF FirstErr(rs) # 0 THEN rs[FirstErr(rs)]
       ELSE IF FirstErr(absent) # 0 THEN absent[FirstErr(absent)]
       ELSE Ok([name \in FieldNames(ty) |-> valueOf(name)])

\* visit_seq of a derived struct: the fields by position
Struct_visit_seq(ty, elems) ==
    LET n == IF Len(elems) < Len(ty.fields) THEN Len(elems) ELSE Len(ty.fields)
        rs == [i \in 1..n |-> Deserialize(ty.fields[i].ty, elems[i])]
    IN IF FirstErr(rs) # 0 THEN rs[FirstErr(rs)]
       ELSE IF Len(elems) # Len(ty.fields) THEN Err(InvalidLength(Len(elems)))
       ELSE Ok([name \in FieldNames(ty) |-> rs[FieldIndex(ty, name)].v])

\* a Vec that keeps the elements that deserialize and leaves out the others
Vec_deserialize_skip(ty, j) ==
    IF j.t # "arr" THEN Err(InvalidType("a sequence"))
    ELSE LET rs == SelectSeq([i \in DOMAIN j.a |-> Deserialize(ty.of, j.a[i])],
                             LAMBDA r : r.ok)
         IN Ok([i \in DOMAIN rs |-> rs[i].v])

\* a Vec that holds its elements last to first
Vec_deserialize_reversed(ty, j) ==
    IF j.t # "arr" THEN Err(InvalidType("a sequence"))
    ELSE LET rs == [i \in DOMAIN j.a |-> Deserialize(ty.of, j.a[Len(j.a) + 1 - i])]
         IN IF FirstErr(rs) # 0 THEN rs[FirstErr(rs)]
            ELSE Ok([i \in DOMAIN rs |-> rs[i].v])

\* Vec<T>: every element in order, the first error ends it
Vec_deserialize(ty, j) ==
    IF j.t # "arr" THEN Err(InvalidType("a sequence"))
    ELSE LET rs == [i \in DOMAIN j.a |-> Deserialize(ty.of, j.a[i])]
         IN IF FirstErr(rs) # 0 THEN rs[FirstErr(rs)]
            ELSE Ok([i \in DOMAIN rs |-> rs[i].v])

\* HashSet<T>: as a Vec, the elements collected into a set
HashSet_deserialize(ty, j) ==
    IF j.t # "arr" THEN Err(InvalidType("a sequence"))
    ELSE LET rs == [i \in DOMAIN j.a |-> Deserialize(ty.of, j.a[i])]
         IN IF FirstErr(rs) # 0 THEN rs[FirstErr(rs)]
            ELSE Ok({rs[i].v : i \in DOMAIN rs})

\* T::deserialize(serde_json value); a model integer is below 2^31, so every
\* one that is not negative fits u32 and u64
Deserialize(ty, j) ==
    CASE ty.k = "String" -> IF j.t = "str" THEN Ok(j.s) ELSE Err(InvalidType("a string"))
      [] ty.k \in {"u32", "u64"} ->
            IF j.t = "num" /\ j.n >= 0 THEN Ok(j.n) ELSE Err(InvalidType(ty.k))
      [] ty.k = "bool" -> IF j.t = "bool" THEN Ok(j.b) ELSE Err(InvalidType("a boolean"))
      [] ty.k = "Price" -> Price_deserialize(j)
      [] ty.k = "Uri" -> Uri_deserialize(j)
      [] ty.k = "Uuid" -> Uuid_deserialize(j)
      [] ty.k = "enum" -> Enum_deserialize(ty.enum, j)
      [] ty.k = "Option" ->
            IF j.t = "null" THEN Ok(None) ELSE Option_deserialize(Deserialize(ty.of, j))
      [] ty.k = "Vec" -> Vec_deserialize(ty, j)
      [] ty.k = "HashSet" -> HashSet_deserialize(ty, j)
      [] ty.k = "struct" ->
            IF j.t = "obj" THEN Struct_visit_map(ty, j.o)
            ELSE IF j.t = "arr" THEN Struct_visit_seq(ty, j.a)
            ELSE Err(InvalidType("struct " \o ty.name))

\* the derived PartialEq, field by field; Price by f64's ==, Uri by http::Uri's
RECURSIVE Value_eq(_, _, _)
Value_eq(ty, a, b) ==
    CASE ty.k = "Price" -> Price_eq(a, b)
      [] ty.k = "Uri" -> Uri_eq(a, b)
      [] ty.k = "Option" ->
            /\ a.some = b.some
            /\ a.some => Value_eq(ty.of, a.v, b.v)
      [] ty.k = "Vec" ->
            /\ Len(a) = Len(b)
            /\ \A i \in DOMAIN a : Value_eq(ty.of, a[i], b[i])
      [] ty.k = "struct" ->
            \A name \in FieldNames(ty) :
                Value_eq(ty.fields[FieldIndex(ty, name)].ty, a[name], b[name])
      [] OTHER -> a = b

(***************************************************************************)
(* card.rs: the enumerations and the records.                              *)
(***************************************************************************)
\* card.rs, lines 10-27
Color ==
    [name |-> "Color", rename_all |-> "lowercase", variants |-> <<
        Variant(<<"W","h","i","t","e">>, <<"W">>),
        Variant(<<"B","l","u","e">>, <<"U">>),
        Variant(<<"B","l","a","c","k">>, <<"B">>),
        Variant(<<"R","e","d">>, <<"R">>),
        Variant(<<"G","r","e","e","n">>, <<"G">>)>>]

\* card.rs, lines 30-48
Layout ==
    [name |-> "Layout", rename_all |-> "snake_case", variants |-> <<
        Variant(<<"N","o","r","m","a","l">>, <<>>),
        Variant(<<"S","p","l","i","t">>, <<>>),
        Variant(<<"F","l","i","p">>, <<>>),
        Variant(<<"T","r","a","n","s","f","o","r","m">>, <<>>),
        Variant(<<"M","e","l","d">>, <<>>),
        Variant(<<"L","e","v","e","l","e","r">>, <<>>),
        Variant(<<"S","a","g","a">>, <<>>),
        Variant(<<"P","l","a","n","a","r">>, <<>>),
        Variant(<<"S","c","h","e","m","e">>, <<>>),
        Variant(<<"V","a","n","g","u","a","r","d">>, <<>>),
        Variant(<<"T","o","k","e","n">>, <<>>),
        Variant(<<"D","o","u","b","l","e","F","a","c","e","d","T","o","k","e","n">>, <<>>),
        Variant(<<"E","m","b","l","e","m">>, <<>>),
        Variant(<<"A","u","g","m","e","n","t">>, <<>>),
        Variant(<<"H","o","s","t">>, <<>>)>>]

\* card.rs, lines 51-65
FrameEffect ==
    [name |-> "FrameEffect", rename_all |-> "lowercase", variants |-> <<
        Variant(<<"L","e","g","e","n","d","a","r","y">>, <<>>),
        Variant(<<"M","i","r","a","c","l","e">>, <<>>),
        Variant(<<"N","y","x","T","o","u","c","h","e","d">>, <<>>),
        Variant(<<"D","r","a","f","t">>, <<>>),
        Variant(<<"D","e","v","o","i","d">>, <<>>),
        Variant(<<"T","o","m","b","s","t","o","n","e">>, <<>>),
        Variant(<<"C","o","l","o","r","S","h","i","f","t","e","d">>, <<>>),
        Variant(<<"S","u","n","M","o","o","n","D","f","c">>, <<>>),
        Variant(<<"C","o","m","p","a","s","s","L","a","n","d","D","f","c">>, <<>>),
        Variant(<<"O","r","i","g","i","n","P","w","D","f","c">>, <<>>),
        Variant(<<"M","o","o","n","E","l","d","r","a","z","i","D","f","c">>, <<>>)>>]

\* card.rs, lines 68-84
Frame ==
    [name |-> "Frame", rename_all |-> "none", variants |-> <<
        Variant(<<"Y","e","a","r","1","9","9","3">>, <<"1","9","9","3">>),
        Variant(<<"Y","e","a","r","1","9","9","7">>, <<"1","9","9","7">>),
        Variant(<<"Y","e","a","r","2","0","0","3">>, <<"2","0","0","3">>),
        Variant(<<"Y","e","a","r","2","0","1","5">>, <<"2","0","1","5">>),
        Variant(<<"F","u","t","u","r","e">>, <<"f","u","t","u","r","e">>)>>]

\* card.rs, lines 87-93
Game ==
    [name |-> "Game", rename_all |-> "lowercase", variants |-> <<
        Variant(<<"P","a","p","e","r">>, <<>>),
        Variant(<<"A","r","e","n","a">>, <<>>),
        Variant(<<"M","t","g","o">>, <<>>)>>]

\* card.rs, lines 96-103
Rarity ==
    [name |-> "Rarity", rename_all |-> "lowercase", variants |-> <<
        Variant(<<"C","o","m","m","o","n">>, <<>>),
        Variant(<<"U","n","c","o","m","m","o","n">>, <<>>),
        Variant(<<"R","a","r","e">>, <<>>),
        Variant(<<"M","y","t","h","i","c">>, <<>>)>>]

\* card.rs, lines 106-113
Legality ==
    [name |-> "Legality", rename_all |-> "snake_case", variants |-> <<
        Variant(<<"N","o","t","L","e","g","a","l">>, <<>>),
        Variant(<<"L","e","g","a","l">>, <<>>),
        Variant(<<"B","a","n","n","e","d">>, <<>>),
        Variant(<<"R","e","s","t","r","i","c","t","e","d">>, <<>>)>>]

\* card.rs, lines 415-428
Legalities ==
    StructOf("Legalities", <<
        Field("standard", EnumOf(Legality)),
        Field("future", EnumOf(Legality)),
        Field("modern", EnumOf(Legality)),
        Field("legacy", EnumOf(Legality)),
        Field("pauper", EnumOf(Legality)),
        Field("vintage", EnumOf(Legality)),
        Field("penny", EnumOf(Legality)),
        Field("commander", EnumOf(Legality)),
        Field("brawl", EnumOf(Legality)),
        Field("duel", EnumOf(Legality)),
        Field("oldschool", EnumOf(Legality))>>)

\* card.rs, lines 431-439
ImageUris ==
    StructOf("ImageUris", <<
        Field("small", OptionOf(T_Uri)),
        Field("normal", OptionOf(T_Uri)),
        Field("large", OptionOf(T_Uri)),
        Field("png", OptionOf(T_Uri)),
        Field("art_crop", OptionOf(T_Uri)),
        Field("border_crop", OptionOf(T_Uri))>>)

\* card.rs, lines 442-448
Prices ==
    StructOf("Prices", <<
        Field("usd", OptionOf(T_Price)),
        Field("usd_foil", OptionOf(T_Price)),
        Field("eur", OptionOf(T_Price)),
        Field("tix", OptionOf(T_Price))>>)

\* card.rs, lines 451-456
PurchaseUris ==
    StructOf("PurchaseUris", <<
        Field("tcgplayer", OptionOf(T_Uri)),
        Field("cardmarket", OptionOf(T_Uri)),
        Field("cardhoarder", OptionOf(T_Uri))>>)

\* card.rs, lines 459-464
RelatedUris ==
    StructOf("RelatedUris", <<
        Field("tcgplayer_decks", OptionOf(T_Uri)),
        Field("edhrec", OptionOf(T_Uri)),
        Field("mtgtop8", OptionOf(T_Uri))>>)

\* card.rs, lines 337-392
CardFace ==
    StructOf("CardFace", <<
        Field("artist", OptionOf(T_String)),
        Field("color_indicator", OptionOf(HashSetOf(EnumOf(Color)))),
        Field("colors", OptionOf(HashSetOf(EnumOf(Color)))),
        Field("flavor_text", OptionOf(T_String)),
        Field("illustration_id", OptionOf(T_Uuid)),
        Field("image_uris", OptionOf(ImageUris)),
        Field("loyalty", OptionOf(T_String)),
        Field("mana_cost", T_String),
        Field("name", T_String),
        Field("oracle_text", OptionOf(T_String)),
        Field("power", OptionOf(T_String)),
        Field("printed_name", OptionOf(T_String)),
        Field("printed_text", OptionOf(T_String)),
        Field("printed_type_line", OptionOf(T_String)),
        Field("toughness", OptionOf(T_String)),
        Field("type_line", T_String),
        Field("watermark", OptionOf(T_String))>>)

\* card.rs, lines 395-412
RelatedCard ==
    StructOf("RelatedCard", <<
        Field("id", T_Uuid),
        Field("component", T_String),
        Field("name", T_String),
        Field("type_line", T_String),
        Field("uri", T_Uri)>>)

\* card.rs, lines 116-334
Card ==
    StructOf("Card", <<
        Field("arena_id", OptionOf(T_u32)),
        Field("id", T_Uuid),
        Field("lang", T_String),
        Field("mtgo_id", OptionOf(T_u32)),
        Field("mtgo_foil_id", OptionOf(T_u32)),
        Field("multiverse_ids", OptionOf(VecOf(T_u32))),
        Field("tcgplayer_id", OptionOf(T_u32)),
        Field("oracle_id", T_Uuid),
        Field("prints_search_uri", T_Uri),
        Field("rulings_uri", T_Uri),
        Field("scryfall_uri", T_Uri),
        Field("uri", T_Uri),
        Field("all_parts", OptionOf(VecOf(CardFace))),
        Field("card_face", OptionOf(VecOf(RelatedCard))),
        Field("cmc", T_u32),
        Field("colors", OptionOf(HashSetOf(EnumOf(Color)))),
        Field("color_identity", HashSetOf(EnumOf(Color))),
        Field("color_indicator", OptionOf(HashSetOf(EnumOf(Color)))),
        Field("edhrec_rank", OptionOf(T_u32)),
        Field("foil", T_bool),
        Field("layout", EnumOf(Layout)),
        Field("legalities", Legalities),
        Field("loyalty", OptionOf(T_String)),
        Field("mana_cost", OptionOf(T_String)),
        Field("name", T_String),
        Field("nonfoil", T_bool),
        Field("oracle_text", OptionOf(T_String)),
        Field("oversized", T_bool),
        Field("power", OptionOf(T_String)),
        Field("reserved", T_bool),
        Field("toughness", OptionOf(T_String)),
        Field("type_line", T_String),
        Field("artist", OptionOf(T_String)),
        Field("booster", T_bool),
        Field("border_color", T_String),
        Field("card_back_id", T_Uuid),
        Field("collector_number", T_String),
        Field("digital", T_bool),
        Field("flavor_text", OptionOf(T_String)),
        Field("frame_effect", OptionOf(EnumOf(FrameEffect))),
        Field("frame", EnumOf(Frame)),
        Field("full_art", T_bool),
        Field("games", VecOf(EnumOf(Game))),
        Field("highres_image", T_bool),
        Field("illustration_id", OptionOf(T_Uuid)),
        Field("image_uris", OptionOf(ImageUris)),
        Field("prices", Prices),
        Field("printed_name", OptionOf(T_String)),
        Field("printed_text", OptionOf(T_String)),
        Field("printed_type_line", OptionOf(T_String)),
        Field("promo", T_bool),
        Field("promo_types", VecOf(T_String)),
        Field("purchase_uris", PurchaseUris),
        Field("rarity", EnumOf(Rarity)),
        Field("related_uris", RelatedUris),
        Field("released_at", T_SystemTime),
        Field("reprint", T_bool),
        Field("scryfall_set_uri", T_Uri),
        Field("set_name", T_String),
        Field("set_search_uri", T_Uri),
        Field("set_type", T_String),
        Field("set_uri", T_String),
        Field("set", T_String),
        Field("story_spotlight", T_bool),
        Field("textless", T_bool),
        Field("variation", T_bool),
        Field("variation_of", OptionOf(T_Uuid)),
        Field("watermark", OptionOf(T_String))>>)

(***************************************************************************)
(* list.rs: List<T>.                                                       *)
(***************************************************************************)
ListOf(ty) ==
    StructOf("List", <<
        Field("data", VecOf(ty)),
        Field("has_more", T_bool),
        Field("next_page", OptionOf(T_Uri)),
        Field("total_card", OptionOf(T_u32)),
        Field("warnings", OptionOf(VecOf(T_String)))>>)

CardList == ListOf(Card)

(***************************************************************************)
(* The wire tags the tests of card.rs document, each with its variant.     *)
(***************************************************************************)
test_color == <<
    <<<<"W">>, <<"W","h","i","t","e">>>>,
    <<<<"U">>, <<"B","l","u","e">>>>,
    <<<<"B">>, <<"B","l","a","c","k">>>>,
    <<<<"R">>, <<"R","e","d">>>>,
    <<<<"G">>, <<"G","r","e","e","n">>>>>>

test_layout == <<
    <<<<"n","o","r","m","a","l">>, <<"N","o","r","m","a","l">>>>,
    <<<<"s","p","l","i","t">>, <<"S","p","l","i","t">>>>,
    <<<<"f","l","i","p">>, <<"F","l","i","p">>>>,
    <<<<"t","r","a","n","s","f","o","r","m">>, <<"T","r","a","n","s","f","o","r","m">>>>,
    <<<<"m","e","l","d">>, <<"M","e","l","d">>>>,
    <<<<"l","e","v","e","l","e","r">>, <<"L","e","v","e","l","e","r">>>>,
    <<<<"s","a","g","a">>, <<"S","a","g","a">>>>,
    <<<<"p","l","a","n","a","r">>, <<"P","l","a","n","a","r">>>>,
    <<<<"s","c","h","e","m","e">>, <<"S","c","h","e","m","e">>>>,
    <<<<"v","a","n","g","u","a","r","d">>, <<"V","a","n","g","u","a","r","d">>>>,
    <<<<"t","o","k","e","n">>, <<"T","o","k","e","n">>>>,
    <<<<"d","o","u","b","l","e","_","f","a","c","e","d","_","t","o","k","e","n">>, <<"D","o","u","b","l","e","F","a","c","e","d","T","o","k","e","n">>>>,
    <<<<"e","m","b","l","e","m">>, <<"E","m","b","l","e","m">>>>,
    <<<<"a","u","g","m","e","n","t">>, <<"A","u","g","m","e","n","t">>>>,
    <<<<"h","o","s","t">>, <<"H","o","s","t">>>>>>

test_frame_effect == <<
    <<<<"l","e","g","e","n","d","a","r","y">>, <<"L","e","g","e","n","d","a","r","y">>>>,
    <<<<"m","i","r","a","c","l","e">>, <<"M","i","r","a","c","l","e">>>>,
    <<<<"n","y","x","t","o","u","c","h","e","d">>, <<"N","y","x","T","o","u","c","h","e","d">>>>,
    <<<<"d","r","a","f","t">>, <<"D","r","a","f","t">>>>,
    <<<<"d","e","v","o","i","d">>, <<"D","e","v","o","i","d">>>>,
    <<<<"t","o","m","b","s","t","o","n","e">>, <<"T","o","m","b","s","t","o","n","e">>>>,
    <<<<"c","o","l","o","r","s","h","i","f","t","e","d">>, <<"C","o","l","o","r","S","h","i","f","t","e","d">>>>,
    <<<<"s","u","n","m","o","o","n","d","f","c">>, <<"S","u","n","M","o","o","n","D","f","c">>>>,
    <<<<"c","o","m","p","a","s","s","l","a","n","d","d","f","c">>, <<"C","o","m","p","a","s","s","L","a","n","d","D","f","c">>>>,
    <<<<"o","r","i","g","i","n","p","w","d","f","c">>, <<"O","r","i","g","i","n","P","w","D","f","c">>>>,
    <<<<"m","o","o","n","e","l","d","r","a","z","i","d","f","c">>, <<"M","o","o","n","E","l","d","r","a","z","i","D","f","c">>>>>>

test_frame == <<
    <<<<"1","9","9","3">>, <<"Y","e","a","r","1","9","9","3">>>>,
    <<<<"1","9","9","7">>, <<"Y","e","a","r","1","9","9","7">>>>,
    <<<<"2","0","0","3">>, <<"Y","e","a","r","2","0","0","3">>>>,
    <<<<"2","0","1","5">>, <<"Y","e","a","r","2","0","1","5">>>>,
    <<<<"f","u","t","u","r","e">>, <<"F","u","t","u","r","e">>>>>>

test_game == <<
    <<<<"p","a","p","e","r">>, <<"P","a","p","e","r">>>>,
    <<<<"a","r","e","n","a">>, <<"A","r","e","n","a">>>>,
    <<<<"m","t","g","o">>, <<"M","t","g","o">>>>>>

test_rarity == <<
    <<<<"c","o","m","m","o","n">>, <<"C","o","m","m","o","n">>>>,
    <<<<"u","n","c","o","m","m","o","n">>, <<"U","n","c","o","m","m","o","n">>>>,
    <<<<"r","a","r","e">>, <<"R","a","r","e">>>>,
    <<<<"m","y","t","h","i","c">>, <<"M","y","t","h","i","c">>>>>>

test_legality == <<
    <<<<"n","o","t","_","l","e","g","a","l">>, <<"N","o","t","L","e","g","a","l">>>>,
    <<<<"l","e","g","a","l">>, <<"L","e","g","a","l">>>>,
    <<<<"b","a","n","n","e","d">>, <<"B","a","n","n","e","d">>>>,
    <<<<"r","e","s","t","r","i","c","t","e","d">>, <<"R","e","s","t","r","i","c","t","e","d">>>>>>

DocumentedTags(name) ==
    CASE name = "Color" -> test_color
      [] name = "Layout" -> test_layout
      [] name = "FrameEffect" -> test_frame_effect
      [] name = "Frame" -> test_frame
      [] name = "Game" -> test_game
      [] name = "Rarity" -> test_rarity
      [] name = "Legality" -> test_legality

Enums == <<Color, Layout, FrameEffect, Frame, Game, Rarity, Legality>>

EnumNames == {Enums[i].name : i \in DOMAIN Enums}

EnumNamed(name) == Enums[CHOOSE i \in DOMAIN Enums : Enums[i].name = name]

Structs == <<Legalities, ImageUris, Prices, PurchaseUris, RelatedUris, CardFace,
             RelatedCard, Card, CardList>>

StructNamed(name) == Structs[CHOOSE i \in DOMAIN Structs : Structs[i].name = name]

\* the type an entry point deserializes
TypeNamed(name) ==
    CASE name = "Price" -> T_Price
      [] name = "Uri" -> T_Uri
      [] name \in EnumNames -> EnumOf(EnumNamed(name))
      [] OTHER -> StructNamed(name)

(***************************************************************************)
(* The wire objects the model feeds to the deserializers.                  *)
(***************************************************************************)
MaxUriLen == 4

MaxFaults == 1

MaxListLen == 2

MaxParses == 2

PriceAlphabet == {"1", "5", "0", ".", "-", "+", " "}

PriceSamples == {
    <<"1","5",".","4","4">>,
    <<"3","7",".","1","2">>,
    <<"N","a","N">>,
    <<"n","a","n">>,
    <<"i","n","f">>,
    <<"-","i","n","f">>,
    <<"i","n","f","i","n","i","t","y">>,
    <<"1","e","2">>,
    <<"1","E","2">>,
    <<"1","e","3","0","9">>,
    <<"1","e","-","4","0","0">>,
    <<"a","b","c">>,
    <<"$","1">>,
    <<"1",",","0","0","0">>}

PriceStrings == StringsUpTo(PriceAlphabet, MaxPriceLen) \cup PriceSamples

UriAlphabet == {"a", ":", "/", " "}

UriSamples == {
    <<"h","t","t","p","s",":","/","/","t","e","s","t","u","r","i",".","c","o","m","/","p","a","t","h","/","1">>,
    <<"h","t","t","p","s",":","/","/","t","e","s","t","u","r","i",".","c","o","m","/","p","a","t","h","/","2">>,
    <<"/","c","a","r","d","s","/","1">>,
    <<"e","x","a","m","p","l","e",".","c","o","m">>,
    <<"*">>,
    <<"h","t","t","p",":","/","/">>,
    <<"H","T","T","P",":","/","/","A","/","b","?","q","=","1","#","f">>,
    <<"a","/","/","a","#","a">>,
    <<"a",":","/","/","a","/","?","a">>}

UriStrings == StringsUpTo(UriAlphabet, MaxUriLen) \cup UriSamples

\* the URIs of test_image_uris: https://testuri.com/path/<i>
UriSample(i) == <<"h","t","t","p","s",":","/","/","t","e","s","t","u","r","i",".","c","o","m","/","p","a","t","h","/">> \o <<Digits[i + 1]>>

\* the prices of test_prices
PriceSample(i) == IF i % 2 = 1 THEN <<"1","5",".","4","4">> ELSE <<"3","7",".","1","2">>

UuidSample == <<"0","a","1","b","2","c","3","d","-","0","0","0","0","-","4","0","0","0","-","8","0","0","0","-","0","0","0","0","0","0","0","0","a","b","c","d">>

NotJsonStrings == {JNull, JNum(1), JBool(TRUE), JArr(<<>>), JObj(<<>>)}

\* a documented tag and the near misses of it: another letter case, a blank after
\* it, its last character gone, the Rust name of its variant
TagsNear(pair) ==
    {pair[1], pair[2], StrToAsciiLowercase(pair[1]), pair[1] \o <<" ">>,
     Take(pair[1], Len(pair[1]) - 1), <<ToAsciiLowercase(pair[2][1])>> \o Tail(pair[2])}

TagStrings(name) ==
    UNION {TagsNear(DocumentedTags(name)[i]) : i \in DOMAIN DocumentedTags(name)}
    \cup {<<"x","y","z">>}

\* a wire value the i-th field of a record can carry and its type accepts
RECURSIVE ValidWire(_, _)
ValidWire(ty, i) ==
    CASE ty.k = "String" -> JStr(<<"x">>)
      [] ty.k \in {"u32", "u64"} -> JNum(i)
      [] ty.k = "bool" -> JBool(TRUE)
      [] ty.k = "Price" -> JStr(PriceSample(i))
      [] ty.k = "Uri" -> JStr(UriSample(i % 10))
      [] ty.k = "Uuid" -> JStr(UuidSample)
      [] ty.k = "enum" ->
            JStr(DocumentedTags(ty.enum.name)
                    [1 + (i % Len(DocumentedTags(ty.enum.name)))][1])
      [] ty.k = "Option" -> ValidWire(ty.of, i)
      [] ty.k \in {"Vec", "HashSet"} -> JArr(<<ValidWire(ty.of, i), ValidWire(ty.of, i + 1)>>)
      [] ty.k = "struct" ->
            JObj([h \in DOMAIN ty.fields |->
                     <<ty.fields[h].name, ValidWire(ty.fields[h].ty, h)>>])

\* a wire value of the right JSON type that the field's validation refuses, or,
\* where every string is valid, a value of the wrong JSON type
RECURSIVE MalformedWire(_)
MalformedWire(ty) ==
    CASE ty.k = "Price" -> JStr(<<"a","b","c">>)
      [] ty.k = "Uri" -> JStr(<<"a"," ","b">>)
      [] ty.k = "Uuid" -> JStr(<<"x","y","z">>)
      [] ty.k = "enum" -> JStr(<<"x","y","z">>)
      [] ty.k = "Option" -> MalformedWire(ty.of)
      [] ty.k \in {"Vec", "HashSet"} -> JArr(<<MalformedWire(ty.of)>>)
      [] ty.k = "bool" -> JNum(0)
      [] ty.k = "struct" -> JObj(<<<<ty.fields[1].name, MalformedWire(ty.fields[1].ty)>>>>)
      [] OTHER -> JBool(TRUE)

Faults == {"omit", "null", "malformed"}

\* the members of a record's wire object: each field carries what `how` says
\* ("valid", or one of Faults), in declaration order
RECURSIVE MembersBetween(_, _, _, _)
MembersBetween(ty, how, lo, hi) ==
    IF lo > hi THEN <<>>
    ELSE IF lo = hi
         THEN (CASE how[lo] = "omit" -> <<>>
                 [] how[lo] = "null" -> <<<<ty.fields[lo].name, JNull>>>>
                 [] how[lo] = "malformed" ->
                       <<<<ty.fields[lo].name, MalformedWire(ty.fields[lo].ty)>>>>
                 [] OTHER -> <<<<ty.fields[lo].name, ValidWire(ty.fields[lo].ty, lo)>>>>)
    ELSE MembersBetween(ty, how, lo, (lo + hi) \div 2)
         \o MembersBetween(ty, how, (lo + hi) \div 2 + 1, hi)

MembersFrom(ty, how) == MembersBetween(ty, how, 1, Len(ty.fields))

WireOf(ty, how) == JObj(MembersFrom(ty, how))

\* every field valid but those of `faulty`, which carry `fault`
HowFaulty(ty, faulty, fault) ==
    [i \in DOMAIN ty.fields |-> IF i \in faulty THEN fault ELSE "valid"]

AllValid(ty) == HowFaulty(ty, {}, "valid")

\* every way to fill the fields of a flat grouping
HowsOfGrouping(ty) == [DOMAIN ty.fields -> Faults \cup {"valid"}]

\* all fields valid, but for at most MaxFaults of them sharing one fault
HowsWithFaults(ty) ==
    {HowFaulty(ty, faulty, fault) :
        faulty \in {f \in SUBSET DOMAIN ty.fields : Cardinality(f) <= MaxFaults},
        fault \in Faults}

\* all fields valid but one; all Option fields omitted; all Option fields null
HowsOfCard(ty) ==
    {HowFaulty(ty, {i}, fault) : i \in DOMAIN ty.fields, fault \in Faults}
    \cup {HowFaulty(ty, {i \in DOMAIN ty.fields : ty.fields[i].ty.k = "Option"}, fault) :
             fault \in {"valid", "omit", "null"}}

Groupings == {"ImageUris", "Prices", "PurchaseUris", "RelatedUris"}

Records == {"Legalities", "CardFace", "RelatedCard"}

\* a record's members out of the ordinary: an unknown key, a key twice, an array
OddWires(ty) ==
    {JObj(<<<<"unknown_key", JBool(TRUE)>>>> \o MembersFrom(ty, AllValid(ty))),
     JObj(MembersFrom(ty, AllValid(ty))
          \o <<<<ty.fields[1].name, ValidWire(ty.fields[1].ty, 1)>>>>),
     JArr([i \in DOMAIN ty.fields |-> ValidWire(ty.fields[i].ty, i)]),
     JArr(<<>>), JNull, JStr(<<"x">>)}

\* a page's elements are valid cards, or cards with no name
ValidCardWire == WireOf(Card, AllValid(Card))

NamelessCardWire == WireOf(Card, HowFaulty(Card, {FieldIndex(Card, "name")}, "omit"))

CardWire(good) == IF good THEN ValidCardWire ELSE NamelessCardWire

\* has_more is true or false; next_page is valid, null, malformed or left out
ListWire(goods, has_more, next_page) ==
    JObj(<<<<"data", JArr([i \in DOMAIN goods |-> CardWire(goods[i])])>>,
           <<"has_more", JBool(has_more)>>>>
         \o (CASE next_page = "omit" -> <<>>
               [] next_page = "null" -> <<<<"next_page", JNull>>>>
               [] next_page = "malformed" -> <<<<"next_page", MalformedWire(T_Uri)>>>>
               [] OTHER -> <<<<"next_page", JStr(UriSample(2))>>>>)
         \o <<<<"total_card", JNum(Len(goods))>>>>)

ListWires ==
    {ListWire(goods, has_more, next_page) :
        goods \in UNION {[1..n -> BOOLEAN] : n \in 0..MaxListLen},
        has_more \in BOOLEAN, next_page \in Faults \cup {"valid"}}
    \cup {JObj(<<<<"data", JArr(<<>>)>>>>), JNull}

ElementKinds == {"full", "other", "malformed"}

\* an element of an array of records: valid, valid with other strings in it, or
\* malformed
ElementWire(ty, kind) ==
    CASE kind = "full" -> WireOf(ty, AllValid(ty))
      [] kind = "other" ->
            JObj([h \in DOMAIN ty.fields |->
                     <<ty.fields[h].name,
                       IF ty.fields[h].ty.k = "String" THEN JStr(<<"y">>)
                       ELSE ValidWire(ty.fields[h].ty, h)>>])
      [] OTHER -> MalformedWire(ty)

ElementsWire(ty, kinds) == JArr([i \in DOMAIN kinds |-> ElementWire(ty, kinds[i])])

KindsUpTo(n) == UNION {[1..m -> ElementKinds] : m \in 0..n}

\* a Card with no optional field but the arrays of the Card objects of the API:
\* Card Face objects under card_faces, Related Card objects under all_parts
BareCardMembers ==
    MembersFrom(Card, HowFaulty(Card, {i \in DOMAIN Card.fields :
                                          Card.fields[i].ty.k = "Option"}, "omit"))

ApiCardWire(keys, kinds) ==
    JObj(BareCardMembers
         \o (IF "card_faces" \in keys
             THEN <<<<"card_faces", ElementsWire(CardFace, kinds)>>>> ELSE <<>>)
         \o (IF "all_parts" \in keys
             THEN <<<<"all_parts", ElementsWire(RelatedCard, kinds)>>>> ELSE <<>>))

ApiCardWires ==
    {ApiCardWire(keys, kinds) :
        keys \in (SUBSET {"card_faces", "all_parts"}) \ {{}},
        kinds \in KindsUpTo(MaxListLen)}

\* pages of valid cards that differ: with every optional field, or with none
MixedListWires ==
    {JObj(<<<<"data", JArr([i \in DOMAIN full |->
                              IF full[i] THEN ValidCardWire ELSE JObj(BareCardMembers)])>>,
            <<"has_more", JBool(FALSE)>>>>) :
        full \in UNION {[1..n -> BOOLEAN] : n \in 1..MaxListLen}}

In(name, json) == [ty |-> name, json |-> json]

Inputs ==
    {In("Price", j) : j \in {JStr(s) : s \in PriceStrings} \cup NotJsonStrings}
    \cup {In("Uri", j) : j \in {JStr(s) : s \in UriStrings} \cup NotJsonStrings}
    \cup UNION {{In(name, j) : j \in {JStr(s) : s \in TagStrings(name)} \cup NotJsonStrings} :
                   name \in EnumNames}
    \cup UNION {{In(name, WireOf(StructNamed(name), how)) :
                    how \in HowsOfGrouping(StructNamed(name))} : name \in Groupings}
    \cup UNION {{In(name, WireOf(StructNamed(name), how)) :
                    how \in HowsWithFaults(StructNamed(name))} : name \in Records}
    \cup UNION {{In(name, j) : j \in OddWires(StructNamed(name))} :
                   name \in Groupings \cup Records}
    \cup {In("Card", WireOf(Card, how)) : how \in HowsOfCard(Card)}
    \cup {In("Card", j) : j \in ApiCardWires}
    \cup {In("List", j) : j \in ListWires \cup MixedListWires}

(***************************************************************************)
(* The state machine: a wire object arrives, and an entry point            *)
(* (serde_json::from_str::<T>) deserializes it, once or again.  results    *)
(* holds the outcome of each parse of input, in order.                     *)
(***************************************************************************)
Init ==
    /\ input \in Inputs
    /\ results = <<>>

\* serde_json::from_str::<Price>
Deserialize_Price ==
    /\ input.ty = "Price"
    /\ Len(results) < MaxParses
    /\ results' = Append(results, Price_deserialize(input.json))
    /\ UNCHANGED input

\* serde_json::from_str::<Uri>
Deserialize_Uri ==
    /\ input.ty = "Uri"
    /\ Len(results) < MaxParses
    /\ results' = Append(results, Uri_deserialize(input.json))
    /\ UNCHANGED input

\* serde_json::from_str::<Color>, ::<Layout>, ... ::<Legality>
Deserialize_Enum ==
    /\ input.ty \in EnumNames
    /\ Len(results) < MaxParses
    /\ results' = Append(results, Enum_deserialize(EnumNamed(input.ty), input.json))
    /\ UNCHANGED input

\* serde_json::from_str::<ImageUris>, ::<Prices>, ::<PurchaseUris>, ::<RelatedUris>
Deserialize_Grouping ==
    /\ input.ty \in Groupings
    /\ Len(results) < MaxParses
    /\ results' = Append(results, Deserialize(StructNamed(input.ty), input.json))
    /\ UNCHANGED input

\* serde_json::from_str::<Legalities>, ::<CardFace>, ::<RelatedCard>
Deserialize_Record ==
    /\ input.ty \in Records
    /\ Len(results) < MaxParses
    /\ results' = Append(results, Deserialize(StructNamed(input.ty), input.json))
    /\ UNCHANGED input

\* serde_json::from_str::<Card>
Deserialize_Card ==
    /\ input.ty = "Card"
    /\ Len(results) < MaxParses
    /\ results' = Append(results, Deserialize(Card, input.json))
    /\ UNCHANGED input

\* serde_json::from_str::<CardList>
Deserialize_List ==
    /\ input.ty = "List"
    /\ Len(results) < MaxParses
    /\ results' = Append(results, Deserialize(CardList, input.json))
    /\ UNCHANGED input

Next ==
    \/ Deserialize_Price
    \/ Deserialize_Uri
    \/ Deserialize_Enum
    \/ Deserialize_Grouping
    \/ Deserialize_Record
    \/ Deserialize_Card
    \/ Deserialize_List

Spec == Init /\ [][Next]_vars

(***************************************************************************)
(* Paging: the caller parses a page, keeps the List it got, and parses the *)
(* next page.  results holds what each parse returned, the pages parsed    *)
(* earlier first; input is the page parsed last, or the first page before  *)
(* it is parsed.  from_str takes the text and returns a new value; nothing *)
(* it returned earlier is within its reach.  A page may be parsed again.   *)
(***************************************************************************)
PageWires ==
    {ListWire(goods, has_more, next_page) :
        goods \in UNION {[1..n -> BOOLEAN] : n \in 0..MaxListLen},
        has_more \in BOOLEAN, next_page \in {"valid", "omit"}}

\* the List says that a page follows it, and where
HasNextPage(list) == list.ok /\ list.v["has_more"] /\ list.v["next_page"].some

InitPages ==
    /\ input \in {In("List", j) : j \in PageWires}
    /\ results = <<>>

\* the caller follows next_page of the List it got last, and the next page
\* arrives: serde_json::from_str::<CardList> on it
Next_Page ==
    /\ results # <<>>
    /\ HasNextPage(results[Len(results)])
    /\ Len(results) < MaxParses
    /\ \E j \in PageWires :
           /\ input' = In("List", j)
           /\ results' = Append(results, Deserialize(CardList, j))

NextPages ==
    \/ Deserialize_List
    \/ Next_Page

SpecPages == InitPages /\ [][NextPages]_vars

\* the input has been parsed, and this is the outcome of its first parse
Parsed(name) == input.ty = name /\ results # <<>>

result == results[1]

(***************************************************************************)
(* What the claims speak of, stated apart from the deserializers.          *)
(***************************************************************************)
AllDigits(s) == \A i \in DOMAIN s : IsDigit(s[i])

Unsigned(s) == IF s # <<>> /\ Head(s) \in {"-", "+"} THEN Tail(s) ELSE s

\* Digit+ [ "." Digit+ ]
IsPlainDecimal(s) ==
    \E k \in 1..Len(s) :
        /\ AllDigits(Take(s, k))
        /\ \/ k = Len(s)
           \/ /\ s[k + 1] = "."
              /\ k + 1 < Len(s)
              /\ AllDigits(Drop(s, k + 1))

\* a decimal string without thousands separators: [sign] Digit+ [ "." Digit+ ]
IsDecimalString(s) == IsPlainDecimal(Unsigned(s))

\* Digit+ | Digit+ "." Digit* | Digit* "." Digit+
IsNumber(s) ==
    \/ s # <<>> /\ AllDigits(s)
    \/ \E k \in 1..Len(s) :
           /\ s[k] = "."
           /\ AllDigits(Take(s, k - 1))
           /\ AllDigits(Drop(s, k))
           /\ Len(s) > 1

\* a base-10 floating-point literal: [sign] Number [ (e|E) [sign] Digit+ ]
IsFloatLiteral(s) ==
    LET u == Unsigned(s)
    IN \/ IsNumber(u)
       \/ \E k \in 1..Len(u) :
              /\ u[k] \in {"e", "E"}
              /\ IsNumber(Take(u, k - 1))
              /\ Unsigned(Drop(u, k)) # <<>>
              /\ AllDigits(Unsigned(Drop(u, k)))

\* the number a decimal string denotes: (-1)^neg * num / den
DecimalOf(s) ==
    LET u == Unsigned(s)
        dot == FirstIn(u, {"."})
        frac == Drop(u, dot)
    IN [neg |-> Head(s) = "-",
        num |-> DigitsValue(Take(u, dot - 1) \o frac),
        den |-> Pow10(Len(frac))]

\* numbers too wide for an integer of the model are sequences of limbs, base
\* 256, most significant first
LimbsOfBits(bits) ==
    LET n == (Len(bits) + 7) \div 8
        padded == [i \in 1..(n * 8 - Len(bits)) |-> 0] \o bits
    IN [l \in 1..n |->
           LET o == (l - 1) * 8
           IN 128 * padded[o + 1] + 64 * padded[o + 2] + 32 * padded[o + 3]
              + 16 * padded[o + 4] + 8 * padded[o + 5] + 4 * padded[o + 6]
              + 2 * padded[o + 7] + padded[o + 8]]

\* limbs * c + carry, for c below 2^22
RECURSIVE LimbsTimes(_, _, _)
LimbsTimes(limbs, c, carry) ==
    IF limbs = <<>> THEN LimbsOfBits(BitsOf(carry, 31))
    ELSE LET sum == limbs[Len(limbs)] * c + carry
         IN LimbsTimes(Take(limbs, Len(limbs) - 1), c, sum \div 256) \o <<sum % 256>>

\* -1, 0 or 1 as a < b, a = b or a > b
LimbsCmp(a, b) ==
    LET n == IF Len(a) > Len(b) THEN Len(a) ELSE Len(b)
        x == [i \in 1..(n - Len(a)) |-> 0] \o a
        y == [i \in 1..(n - Len(b)) |-> 0] \o b
        diff == {i \in 1..n : x[i] # y[i]}
        first == CHOOSE i \in diff : \A h \in diff : i <= h
    IN IF diff = {} THEN 0
       ELSE IF x[first] < y[first] THEN -1 ELSE 1

Zeros(k) == [i \in 1..k |-> 0]

\* bits - 1, for bits that are not all zero: the last 1 becomes 0, the 0s after it 1
BitsDec(bits) ==
    LET ones == {i \in DOMAIN bits : bits[i] = 1}
        last == CHOOSE i \in ones : \A h \in ones : h <= i
    IN [i \in DOMAIN bits |-> IF i < last THEN bits[i] ELSE IF i = last THEN 0 ELSE 1]

\* bits * 2^e against num / den
CmpScaled(bits, e, num, den) ==
    LimbsCmp(LimbsTimes(LimbsOfBits(bits \o Zeros(IF e > 0 THEN e ELSE 0)), den, 0),
             LimbsOfBits(BitsOf(num, 31) \o Zeros(IF e < 0 THEN 0 - e ELSE 0)))

\* the f64 is exactly the number
F64IsExactly(f, x) ==
    IF x.num = 0 THEN f.cls = "zero"
    ELSE /\ f.cls = "fin"
         /\ f.neg = x.neg
         /\ CmpScaled(f.mant, f.exp - (MANTISSA_BITS - 1), x.num, x.den) = 0

\* no f64 is nearer to the number: it lies between the midpoints to the two
\* neighbours of f (below a power of two the neighbour is half as far)
F64IsNearest(f, x) ==
    IF x.num = 0 THEN f.cls = "zero"
    ELSE /\ f.cls = "fin"
         /\ f.neg = x.neg
         /\ CmpScaled(f.mant \o <<1>>, f.exp - MANTISSA_BITS, x.num, x.den) >= 0
         /\ IF \A i \in 2..Len(f.mant) : f.mant[i] = 0
            THEN CmpScaled(BitsDec(f.mant \o <<0, 0>>), f.exp - (MANTISSA_BITS + 1),
                           x.num, x.den) <= 0
            ELSE CmpScaled(BitsDec(f.mant \o <<0>>), f.exp - MANTISSA_BITS,
                           x.num, x.den) <= 0

SchemeNameChars == Alnum \cup {"+", "-", "."}

\* RFC 3986: scheme = ALPHA *( ALPHA / DIGIT / "+" / "-" / "." ), then ":"
SchemeLen(s) ==
    LET colon == FirstIn(s, {":"})
    IN IF /\ colon <= Len(s)
          /\ colon > 1
          /\ IsAlpha(s[1])
          /\ \A i \in 2..(colon - 1) : s[i] \in SchemeNameChars
       THEN colon - 1 ELSE 0

HasScheme(s) == SchemeLen(s) > 0

Unreserved == Alnum \cup {"-", ".", "_", "~"}

\* what scheme "://" host [ ":" port ] [ "/" path ] [ "?" query ] splits into
UriParts(s) ==
    LET after == Drop(s, SchemeLen(s) + 3)
        authEnd == FirstIn(after, {"/", "?", "#"}) - 1
        tail == Drop(after, authEnd)
        pathEnd == FirstIn(tail, {"?", "#"}) - 1
        hasQuery == pathEnd < Len(tail) /\ tail[pathEnd + 1] = "?"
        afterQ == IF hasQuery THEN Drop(tail, pathEnd + 1) ELSE <<>>
        queryEnd == FirstIn(afterQ, {"#"}) - 1
    IN [scheme |-> Take(s, SchemeLen(s)),
        authority |-> Take(after, authEnd),
        path |-> Take(tail, pathEnd),
        hasQuery |-> hasQuery,
        query |-> Take(afterQ, queryEnd),
        fragment |-> Drop(afterQ, queryEnd) # <<>> \/ (~hasQuery /\ pathEnd < Len(tail))]

\* absolute URIs of the plainest kind: scheme "://" host [ ":" port ] path
\* [ "?" query ], the host of unreserved characters, the port of digits, the path
\* and the query of unreserved characters and "/"
IsAbsoluteUri(s) ==
    /\ HasScheme(s)
    /\ Len(s) >= SchemeLen(s) + 3
    /\ SubSeq(s, SchemeLen(s) + 1, SchemeLen(s) + 3) = Str_sep
    /\ LET p == UriParts(s)
           colon == FirstIn(p.authority, {":"})
           host == Take(p.authority, colon - 1)
           port == Drop(p.authority, colon)
       IN /\ host # <<>>
          /\ \A i \in DOMAIN host : host[i] \in Unreserved
          /\ AllDigits(port)
          /\ colon # Len(p.authority)
          /\ \A i \in DOMAIN p.path : p.path[i] \in Unreserved \cup {"/"}
          /\ \A i \in DOMAIN p.query : p.query[i] \in Unreserved \cup {"/"}
          /\ ~p.fragment

\* the parsed Uri is that URI, part by part
UriIs(u, s) ==
    LET p == UriParts(s)
    IN /\ EqIgnoreAsciiCase(u.scheme, p.scheme)
       /\ EqIgnoreAsciiCase(u.authority, p.authority)
       /\ HttpUri_path(u) = (IF p.path = <<>> THEN <<"/">> ELSE p.path)
       /\ u.query.some = p.hasQuery
       /\ u.query.some => u.query.v = p.query

IsDocumentedTag(name, tag) ==
    \E i \in DOMAIN DocumentedTags(name) : DocumentedTags(name)[i][1] = tag

\* the variant the tests pair with a documented tag
DocumentedVariant(name, tag) ==
    DocumentedTags(name)[CHOOSE i \in DOMAIN DocumentedTags(name) :
                            DocumentedTags(name)[i][1] = tag][2]

\* the value of the first member of a wire object with this key
Member(j, key) == j.o[CHOOSE i \in DOMAIN j.o : j.o[i][1] = key /\
                                                \A h \in 1..(i - 1) : j.o[h][1] # key][2]

HasMember(j, key) == \E i \in DOMAIN j.o : j.o[i][1] = key

\* a scalar or enumeration field, or an Option of one
LeafKinds == {"String", "u32", "u64", "bool", "Price", "Uri", "Uuid", "enum"}

IsLeaf(ty) ==
    \/ ty.k \in LeafKinds
    \/ ty.k = "Option" /\ ty.of.k \in LeafKinds

\* some leaf field of the record is on the wire, not null where it is an Option,
\* and fails its own validation
HasBadLeaf(ty, j) ==
    /\ j.t = "obj"
    /\ \E i \in DOMAIN ty.fields :
           /\ IsLeaf(ty.fields[i].ty)
           /\ HasMember(j, ty.fields[i].name)
           /\ LET value == Member(j, ty.fields[i].name)
                  leaf == IF ty.fields[i].ty.k = "Option" THEN ty.fields[i].ty.of
                          ELSE ty.fields[i].ty
              IN /\ ~(ty.fields[i].ty.k = "Option" /\ value = JNull)
                 /\ ~Deserialize(leaf, value).ok

\* the field is on the wire with a value its type accepts
HasValid(ty, j, name) ==
    /\ HasMember(j, name)
    /\ Deserialize(ty.fields[FieldIndex(ty, name)].ty, Member(j, name)).ok

\* the field is left out, or null, or carries a value its type accepts
AbsentOrValid(ty, j, name) ==
    \/ ~HasMember(j, name)
    \/ Member(j, name) = JNull
    \/ HasValid(ty, j, name)

NoKeyTwice(j) == \A i, h \in DOMAIN j.o : j.o[i][1] = j.o[h][1] => i = h

\* the fields the spec calls required
SpecRequired == {"id", "name", "layout", "legalities", "rarity", "type_line",
                 "released_at", "set"}

\* the fields of Card that card.rs does not declare as an Option
CardRequired ==
    {"id", "lang", "oracle_id", "prints_search_uri", "rulings_uri", "scryfall_uri",
     "uri", "cmc", "color_identity", "foil", "layout", "legalities", "name",
     "nonfoil", "oversized", "reserved", "type_line", "booster", "border_color",
     "card_back_id", "collector_number", "digital", "frame", "full_art", "games",
     "highres_image", "prices", "promo", "promo_types", "purchase_uris", "rarity",
     "related_uris", "released_at", "reprint", "scryfall_set_uri", "set_name",
     "set_search_uri", "set_type", "set_uri", "set", "story_spotlight", "textless",
     "variation"}

LegalityFormats == {"standard", "future", "modern", "legacy", "pauper", "vintage",
                    "penny", "commander", "brawl", "duel", "oldschool"}

RecordNames == Groupings \cup Records \cup {"Card"}

(***************************************************************************)
(* The claims.                                                             *)
(***************************************************************************)

\* C1: every List that parsing returns has a next_page whenever its has_more is
\* true; a page with has_more = true and no next_page is not returned as a List.
C1_HasMoreImpliesNextPage ==
    (Parsed("List") /\ result.ok) =>
        (result.v["has_more"] => result.v["next_page"].some)

\* C2: for each enumeration, every documented wire tag deserializes to the
\* variant documented for it, no other documented tag yields that variant, and
\* every variant of the enumeration is the outcome of some documented tag.
C2_DocumentedTagsBijective ==
    (input.ty \in EnumNames /\ results # <<>> /\ input.json.t = "str"
        /\ IsDocumentedTag(input.ty, input.json.s)) =>
        LET enum == EnumNamed(input.ty)
            tags == DocumentedTags(input.ty)
        IN /\ result = Ok(DocumentedVariant(input.ty, input.json.s))
           /\ \A i \in DOMAIN tags :
                  tags[i][1] # input.json.s =>
                      Enum_deserialize(enum, JStr(tags[i][1])) # result
           /\ \A v \in DOMAIN enum.variants :
                  \E i \in DOMAIN tags :
                      Enum_deserialize(enum, JStr(tags[i][1])) = Ok(enum.variants[v].ident)

C2_Witness ==
    /\ Parsed("Layout")
    /\ input.json = JStr(<<"d","o","u","b","l","e","_","f","a","c","e","d","_","t","o","k","e","n">>)
    /\ result = Ok(<<"D","o","u","b","l","e","F","a","c","e","d","T","o","k","e","n">>)

\* C3: a tag that is not, character for character, one of the documented wire
\* tags of the enumeration fails to deserialize: it yields no variant.
C3_UnknownTagFails ==
    (input.ty \in EnumNames /\ results # <<>> /\ input.json.t = "str"
        /\ ~IsDocumentedTag(input.ty, input.json.s)) => ~result.ok

C3_Witness ==
    /\ Parsed("Legality")
    /\ input.json = JStr(<<"l","e","g","a","l"," ">>)
    /\ result = Err(UnknownVariant("Legality", input.json.s))

\* C4 as claimed: a decimal string without thousands separators parses as a
\* Price, and the stored amount is exactly the number the string denotes.
C4_StoredIsExactlyTheNumber ==
    (Parsed("Price") /\ input.json.t = "str" /\ IsDecimalString(input.json.s)) =>
        (result.ok /\ F64IsExactly(result.v, DecimalOf(input.json.s)))

\* C4 as amended: a decimal string without thousands separators parses as a
\* Price, and the stored amount is the f64 nearest to the number the string
\* denotes (so it is that number whenever the number is an f64).
C4_StoredIsTheNearestF64 ==
    (Parsed("Price") /\ input.json.t = "str" /\ IsDecimalString(input.json.s)) =>
        (result.ok /\ F64IsNearest(result.v, DecimalOf(input.json.s)))

C4_Witness ==
    /\ Parsed("Price")
    /\ input.json = JStr(<<"1","5",".","4","4">>)
    /\ result.ok
    /\ result.v.cls = "fin"
    /\ ~F64IsExactly(result.v, DecimalOf(input.json.s))

\* C5: a Price parse succeeds only for a string that is, in its entirety, a
\* base-10 numeric literal, and every Price that exists holds a finite number.
C5_OnlyFiniteLiteralsParse ==
    (Parsed("Price") /\ result.ok) =>
        /\ input.json.t = "str"
        /\ IsFloatLiteral(input.json.s)
        /\ F64IsFinite(result.v)

\* C6: a Uri parse succeeds for a valid absolute URI and yields that URI, and
\* fails for every string that has no scheme.
C6_AbsoluteUrisOnly ==
    (Parsed("Uri") /\ input.json.t = "str") =>
        /\ IsAbsoluteUri(input.json.s) =>
               (result.ok /\ UriIs(result.v, input.json.s))
        /\ ~HasScheme(input.json.s) => ~result.ok

\* C7: two parses of the same wire object have the same outcome, and when both
\* succeed the two values are equal under the types' PartialEq.
C7_ParsedTwiceEqual ==
    (Len(results) >= 2
        /\ input.ty \in {"Price", "Uri", "Prices", "ImageUris", "Card"} \cup EnumNames) =>
        /\ results[1].ok = results[2].ok
        /\ ~results[1].ok => results[1] = results[2]
        /\ results[1].ok => Value_eq(TypeNamed(input.ty), results[1].v, results[2].v)

\* C8: when a leaf field of a record is on the wire and fails its scalar or
\* enumeration validation, be the field required or optional, the parse of the
\* whole record fails.
C8_BadLeafFailsRecord ==
    (input.ty \in RecordNames /\ results # <<>>
        /\ HasBadLeaf(StructNamed(input.ty), input.json)) => ~result.ok

C8_Witness ==
    /\ Parsed("Prices")
    /\ input.json = WireOf(Prices, HowFaulty(Prices, {FieldIndex(Prices, "usd_foil")},
                                             "malformed"))
    /\ ~result.ok

\* C9 as claimed: a Card parses whenever the eight fields the spec calls required
\* are present and valid and every other field is left out, null or valid; and
\* it fails whenever one of the eight is left out.
C9_OnlySpecRequiredNeeded ==
    (Parsed("Card") /\ input.json.t = "obj" /\ NoKeyTwice(input.json)) =>
        /\ (/\ \A name \in SpecRequired : HasValid(Card, input.json, name)
            /\ \A name \in FieldNames(Card) \ SpecRequired :
                   AbsentOrValid(Card, input.json, name)) => result.ok
        /\ (\E name \in SpecRequired : ~HasMember(input.json, name)) => ~result.ok

\* C9 as amended: a Card parses whenever every field card.rs does not declare as
\* an Option is present and valid and every Option field is left out, null or
\* valid; and it fails whenever a field that is not an Option is left out.
C9_NonOptionFieldsNeeded ==
    (Parsed("Card") /\ input.json.t = "obj" /\ NoKeyTwice(input.json)) =>
        /\ (/\ \A name \in CardRequired : HasValid(Card, input.json, name)
            /\ \A name \in FieldNames(Card) \ CardRequired :
                   AbsentOrValid(Card, input.json, name)) => result.ok
        /\ (\E name \in CardRequired : ~HasMember(input.json, name)) => ~result.ok

C9_Witness ==
    /\ Parsed("Card")
    /\ \A name \in FieldNames(Card) \ CardRequired : ~HasMember(input.json, name)
    /\ \A name \in CardRequired : HasValid(Card, input.json, name)
    /\ result.ok

\* C10: a Legalities wire object parses only when each of the 11 format keys is
\* present with a recognized Legality tag, each format then holding the variant
\* of its own tag; with a key missing the parse fails.
C10_AllFormatsNeeded ==
    (Parsed("Legalities") /\ input.json.t = "obj") =>
        /\ result.ok =>
               \A key \in LegalityFormats :
                   /\ HasMember(input.json, key)
                   /\ Member(input.json, key).t = "str"
                   /\ IsDocumentedTag("Legality", Member(input.json, key).s)
                   /\ result.v[key] =
                          DocumentedVariant("Legality", Member(input.json, key).s)
        /\ (\E key \in LegalityFormats : ~HasMember(input.json, key)) => ~result.ok

C10_Witness ==
    /\ Parsed("Legalities")
    /\ input.json = WireOf(Legalities,
                           HowFaulty(Legalities, {FieldIndex(Legalities, "brawl")}, "omit"))
    /\ result = Err(MissingField("brawl"))

\* the elements of the array under key, each parsed as a ty
ElementsAs(ty, j, key) ==
    [i \in DOMAIN Member(j, key).a |-> Deserialize(ty, Member(j, key).a[i])]

\* j without its members of that key
WithoutKey(j, key) == JObj(SelectSeq(j.o, LAMBDA m : m[1] # key))

\* the array under key holds ty records: one that is malformed fails the Card,
\* and otherwise, where the Card is valid but for this key, the Card parses and
\* carries the records in order
NestedSurfaced(ty, key) ==
    (HasMember(input.json, key) /\ Member(input.json, key).t = "arr") =>
        LET rs == ElementsAs(ty, input.json, key)
        IN IF FirstErr(rs) # 0 THEN ~result.ok
           ELSE (rs # <<>> /\ Deserialize(Card, WithoutKey(input.json, key)).ok) =>
                    /\ result.ok
                    /\ \/ result.v["card_face"] = Some([i \in DOMAIN rs |-> rs[i].v])
                       \/ result.v["all_parts"] = Some([i \in DOMAIN rs |-> rs[i].v])

\* C11: the elements of a Card's card_faces are parsed as CardFace records and
\* those of its all_parts as RelatedCard records, and the Card carries them in
\* order; a malformed element under either key fails the Card, and the content of
\* neither key is dropped.
C11_NestedRecordsSurfaced ==
    (Parsed("Card") /\ input.json.t = "obj" /\ NoKeyTwice(input.json)) =>
        /\ NestedSurfaced(CardFace, "card_faces")
        /\ NestedSurfaced(RelatedCard, "all_parts")

\* C11, the part on card_faces alone
C11_CardFacesSurfaced ==
    (Parsed("Card") /\ input.json.t = "obj" /\ NoKeyTwice(input.json)) =>
        NestedSurfaced(CardFace, "card_faces")

\* C11, the part on all_parts alone
C11_AllPartsSurfaced ==
    (Parsed("Card") /\ input.json.t = "obj" /\ NoKeyTwice(input.json)) =>
        NestedSurfaced(RelatedCard, "all_parts")

\* some element of the page's data array is not a valid Card
HasBadElement(j) ==
    /\ j.t = "obj"
    /\ HasMember(j, "data")
    /\ Member(j, "data").t = "arr"
    /\ \E i \in DOMAIN Member(j, "data").a : ~Deserialize(Card, Member(j, "data").a[i]).ok

\* C12: in every parse of a page, a page with an element of data that fails
\* validation yields an error and no List, and every result returned by an
\* earlier parse, the Lists among them, is afterwards what it was.
C12_PageFailsEarlierStay ==
    [][/\ Len(results') = Len(results) + 1
       /\ SubSeq(results', 1, Len(results)) = results
       /\ HasBadElement(input'.json) => ~results'[Len(results')].ok]_vars

C12_Witness ==
    /\ Len(results) = 2
    /\ results[1].ok
    /\ Len(results[1].v["data"]) = MaxListLen
    /\ HasBadElement(input.json)
    /\ ~results[2].ok

\* the wire object carries keys of the grouping only, none twice, and each with a
\* value that is not null and that the field's type accepts
SuppliesValidOnly(ty, j) ==
    /\ j.t = "obj"
    /\ NoKeyTwice(j)
    /\ \A i \in DOMAIN j.o :
           /\ j.o[i][1] \in FieldNames(ty)
           /\ j.o[i][2] # JNull
           /\ HasValid(ty, j, j.o[i][1])

\* C13: a flat grouping (ImageUris, Prices, PurchaseUris, RelatedUris) with any
\* subset of its keys, each carrying a valid value, parses; in the result each
\* supplied key holds its validated value and each key not supplied is absent.
C13_SuppliedKeysPresent ==
    (input.ty \in Groupings /\ results # <<>>
        /\ SuppliesValidOnly(StructNamed(input.ty), input.json)) =>
        LET ty == StructNamed(input.ty)
        IN /\ result.ok
           /\ \A i \in DOMAIN ty.fields :
                  result.v[ty.fields[i].name] =
                      IF HasMember(input.json, ty.fields[i].name)
                      THEN Some(Deserialize(ty.fields[i].ty.of,
                                            Member(input.json, ty.fields[i].name)).v)
                      ELSE None

\* test_image_uris: small, normal and large given; png, art_crop and border_crop
\* are absent
C13_Witness ==
    /\ Parsed("ImageUris")
    /\ input.json = JObj(<<<<"small", JStr(UriSample(1))>>,
                           <<"normal", JStr(UriSample(2))>>,
                           <<"large", JStr(UriSample(3))>>>>)
    /\ result.ok
    /\ result.v["small"] = Some(HttpUri_from_str(UriSample(1)).v)
    /\ result.v["large"] = Some(HttpUri_from_str(UriSample(3)).v)
    /\ result.v["png"] = None
    /\ result.v["art_crop"] = None
    /\ result.v["border_crop"] = None

\* the input is a JSON string that was refused
RawRefused(names) ==
    input.ty \in names /\ results # <<>> /\ input.json.t = "str" /\ ~result.ok

\* another raw string of the same length, refused too, gets another error; with
\* the same length the two errors arise at one line and column of the text
ToldApartFrom(raws, deserialize(_)) ==
    \A s \in raws :
        (Len(s) = Len(input.json.s) /\ s # input.json.s /\ ~deserialize(JStr(s)).ok) =>
            deserialize(JStr(s)) # result

\* C14, of Price: the failure tells the raw string from every other
C14_PriceFailureCarriesRaw ==
    RawRefused({"Price"}) => ToldApartFrom(PriceStrings, Price_deserialize)

\* C14, of Uri: the failure tells the raw string from every other
C14_UriFailureCarriesRaw ==
    RawRefused({"Uri"}) => ToldApartFrom(UriStrings, Uri_deserialize)

\* C14, of an enumeration: the failure carries the raw tag
C14_EnumFailureCarriesTag ==
    RawRefused(EnumNames) =>
        /\ result.err.kind = "unknown_variant"
        /\ result.err.tag = input.json.s
        /\ ToldApartFrom(TagStrings(input.ty),
                         LAMBDA j : Enum_deserialize(EnumNamed(input.ty), j))

\* C14, of a record: when one leaf field alone is malformed, the failure names it
C14_FailureNamesField ==
    (input.ty \in RecordNames /\ results # <<>>) =>
        LET ty == StructNamed(input.ty)
        IN \A i \in DOMAIN ty.fields :
               (IsLeaf(ty.fields[i].ty)
                   /\ input.json = WireOf(ty, HowFaulty(ty, {i}, "malformed"))) =>
                   /\ ~result.ok
                   /\ "field" \in DOMAIN result.err
                   /\ result.err.field = ty.fields[i].name

\* C14: a validation failure identifies what was unexpected: that of a Price or
\* of a Uri the raw string, that of an enumeration the raw tag, and that of a
\* record the field, so that failures of different raw inputs or of different
\* fields differ.
C14_FailuresIdentifyInput ==
    /\ C14_PriceFailureCarriesRaw
    /\ C14_UriFailureCarriesRaw
    /\ C14_EnumFailureCarriesTag
    /\ C14_FailureNamesField

\* C15: a List that parsed holds in data as many elements as the wire's data
\* array, and the i-th of them is the parse of the i-th wire element: none is
\* moved, merged with an equal one, or left out.
C15_DataInWireOrder ==
    (Parsed("List") /\ result.ok /\ input.json.t = "obj") =>
        LET wire == Member(input.json, "data").a
        IN /\ Len(result.v["data"]) = Len(wire)
           /\ \A i \in DOMAIN wire : result.v["data"][i] = Deserialize(Card, wire[i]).v

\* a page of MaxListLen cards parsed, the first two of them different
C15_Witness ==
    /\ Parsed("List")
    /\ result.ok
    /\ Len(result.v["data"]) = MaxListLen
    /\ result.v["data"][1] # result.v["data"][2]

=============================================================================
